---- MODULE Spec2Model ----
(***************************************************************************)
(* Razorpay order creation / payment verification handlers of the          *)
(* repository, as a state machine over the Appwrite orders collection.     *)
(*                                                                         *)
(* Handlers (each an independent serverless invocation):                   *)
(*   CreateOrUpdate  src/index.js 26-128      verifyPayment, create/update *)
(*   UpdateOnly      src/index.js 135-332     verifyPayment, update only   *)
(*   Shipping        src/unnamed/part_001     verifyPayment with shipping  *)
(*   createOrder     src/unnamed/part_002     createOrder (razorpay / COD) *)
(*   main            src/unnamed/part_003     create-order script          *)
(*                                                                         *)
(* Every `await` of a gateway or document-store call is a point where      *)
(* other invocations may run.  An action performs the awaited call and     *)
(* runs the handler up to its next await or to its response.               *)
(*                                                                         *)
(* Numbers: a JavaScript number n is represented by the integer 8n         *)
(* (eighths), which is exact for the binary fractions used as inputs and   *)
(* lets Math.round act on non-integers.  Strings "" stand for              *)
(* undefined / null / "" (all falsy); an optional number is <<>> or <<n>>. *)
(***************************************************************************)
EXTENDS Integers, Sequences, FiniteSets, TLC

VARIABLES
    env,        \* process.env of the deployment
    docs,       \* the orders collection, in creation order; $id = index
    gwOrders,   \* number of orders the gateway has created
    issued,     \* order ids that an order creation has returned to its caller
    functions,  \* the version of each function that is deployed
    reqs,       \* the invocations in flight or just answered, per slot
    arrived,    \* number of invocations started so far
    calc        \* an amount and what the handlers make of it (SpecAmount)

vars == <<env, functions, docs, gwOrders, issued, reqs, arrived, calc>>

(* ------------------------------ bounds -------------------------------- *)

\* Total number of invocations in one behaviour.
MaxRequests == 3

\* Invocations that may be in flight at the same time.
Slots == {1, 2}

(* --------------------------- JavaScript numbers ----------------------- *)

Num(n) == n * 8

\* Number.isInteger
IsInteger(x) == x % 8 = 0

\* Math.round: nearest integer, halves towards +Infinity
MathRound(x) == ((x + 4) \div 8) * 8

NoNumber == <<>>
Some(x) == <<x>>

\* a value in a boolean context, for an optional number
Truthy(v) == v # NoNumber /\ v[1] # 0

(* ------------------------------ signature ----------------------------- *)

\* crypto.createHmac("sha256", key).update(msg).digest("hex"), symbolically:
\* distinct (key, message) pairs give distinct digests.
Hmac(key, msg) == "hmac-sha256(" \o key \o "," \o msg \o ")"

generatedSignature(secret, order_id, payment_id) ==
    Hmac(secret, order_id \o "|" \o payment_id)

(* ----------------------------- environment ---------------------------- *)

\* process.env: the Razorpay credentials and the Appwrite settings
\* (endpoint, project, key, database id, collection id) as one flag.
Configured ==
    [RAZORPAY_KEY_ID |-> "rzp_key", RAZORPAY_KEY_SECRET |-> "rzp_secret", APPWRITE |-> TRUE]

Envs ==
    { Configured,
      [Configured EXCEPT !.RAZORPAY_KEY_ID = "", !.RAZORPAY_KEY_SECRET = ""],
      [Configured EXCEPT !.APPWRITE = FALSE] }

\* !process.env.RAZORPAY_KEY_SECRET || !process.env.RAZORPAY_KEY_ID
MissingRazorpayEnv(e) == e.RAZORPAY_KEY_SECRET = "" \/ e.RAZORPAY_KEY_ID = ""

(* ------------------------------ requests ------------------------------ *)

EmptyBody ==
    [ razorpay_order_id   |-> "",
      razorpay_payment_id |-> "",
      razorpay_signature  |-> "",
      amount              |-> NoNumber,   \* `expectedAmount` for UpdateOnly
      userId              |-> "",
      paymentMethod       |-> "",
      shipping            |-> FALSE,      \* a shipping object/array is supplied
      size                |-> FALSE ]     \* some item carries a size

NoResp == [status |-> 0, success |-> FALSE, message |-> "", error |-> ""]

Idle ==
    [ h      |-> "",         \* handler
      pc     |-> "idle",     \* the call awaited, "done" once answered
      method |-> "",
      body   |-> EmptyBody,
      pd     |-> <<>>,       \* paymentDetails: <<>> (null) or <<details>>
      doc    |-> 0,          \* $id of the document the lookup returned, 0 if none
      order  |-> "",         \* razorpay_order_id assigned by createOrder
      amountPaise |-> <<>>,  \* order creation: the amount passed to orders.create
      resp   |-> NoResp,
      ops    |-> <<>>,       \* gateway / store calls made, in order
      known  |-> FALSE,      \* the order had a record on arrival
      paid   |-> FALSE,      \* the order was already paid on arrival
      replay |-> FALSE ]     \* ... and paid by this very payload

Respond(r, status, success, message) ==
    [r EXCEPT !.pc = "done",
              !.resp = [status |-> status, success |-> success,
                        message |-> message, error |-> ""]]

\* the outer catch: res.json({ success: false, ..., error }, 500)
RespondError(r, message, err) ==
    [r EXCEPT !.pc = "done",
              !.resp = [status |-> 500, success |-> FALSE,
                        message |-> message, error |-> err]]

Await(r, call) == [r EXCEPT !.pc = call]

Called(r, op, ok, st) ==
    [r EXCEPT !.ops = Append(@, [op |-> op, ok |-> ok, status |-> st])]

(* --------------------------- document store --------------------------- *)

\* attributes of an order document; "" / <<>> when never written
NullDoc ==
    [ razorpay_order_id   |-> "",
      status              |-> "",
      razorpay_payment_id |-> "",
      razorpay_signature  |-> "",
      userId              |-> "",
      amount              |-> NoNumber,
      amountPaise         |-> NoNumber,
      amountPaisePaid     |-> NoNumber,
      payment_status      |-> "",
      verification_raw    |-> "" ]

\* for comparison: a lookup that also filters on the status, and so misses
\* the record once a concurrent call has paid it
listDocuments_unpaidOnly(store, id) ==
    LET hits == {i \in DOMAIN store : /\ store[i].razorpay_order_id = id
                                      /\ store[i].status # "paid"}
    IN  IF hits = {} THEN 0 ELSE CHOOSE i \in hits : \A j \in hits : i <= j

\* listDocuments([Query.equal("razorpay_order_id", id), Query.limit(1)]).documents[0]
listDocuments(store, id) ==
    LET hits == {i \in DOMAIN store : store[i].razorpay_order_id = id}
    IN  IF hits = {} THEN 0 ELSE CHOOSE i \in hits : \A j \in hits : i <= j

\* updateDocument(db, coll, $id, data): the attributes in data are replaced
updateDocument(store, id, data) == [store EXCEPT ![id] = data @@ @]

\* createDocument(db, coll, ID.unique(), data)
createDocument(store, data) == Append(store, data @@ NullDoc)

(* ------------------------------- gateway ------------------------------ *)

PaymentStatuses == {"captured", "authorized"}

\* the amount (paise) the gateway holds for a payment
gatewayPaymentAmount(payment_id) == Num(49900)

\* razorpay.payments.fetch(payment_id), when it resolves
paymentsFetch(payment_id, st) ==
    [amount |-> gatewayPaymentAmount(payment_id), status |-> st]

\* razorpay.orders.create(...).id: a fresh identifier per order
ordersCreateId(n) == "order_" \o ToString(n)

(* ------------------------------- inputs ------------------------------- *)

OrderIds == {"order_1"}
PaymentIds == {"pay_1"}

\* what a caller may send as razorpay_signature for (order, payment): the
\* gateway's signature, or one made without the gateway's secret
Signatures(o, p) ==
    { generatedSignature(Configured.RAZORPAY_KEY_SECRET, o, p),
      generatedSignature("forged", o, p) }

DeclaredAmounts == {NoNumber, Some(Num(0)), Some(Num(499)), Some(Num(500))}

\* complete payloads, and payloads with one of the three fields left out
VerifyBodies ==
    { [EmptyBody EXCEPT !.razorpay_order_id = o, !.razorpay_payment_id = p,
                        !.razorpay_signature = g, !.amount = a]
        : o \in OrderIds, p \in PaymentIds,
          g \in UNION {Signatures(o2, p2) : o2 \in OrderIds, p2 \in PaymentIds},
          a \in DeclaredAmounts }
    \cup
    { [EmptyBody EXCEPT !.razorpay_order_id = f[1], !.razorpay_payment_id = f[2],
                        !.razorpay_signature = f[3]]
        : f \in { <<"", "pay_1", generatedSignature("forged", "", "pay_1")>>,
                  <<"order_1", "", generatedSignature("forged", "order_1", "")>>,
                  <<"order_1", "pay_1", "">> } }

\* the orders the gateway has created
GatewayOrders == {ordersCreateId(n) : n \in 1..gwOrders}

\* The gateway signs an (order, payment) pair when the order is paid at its
\* checkout, which takes the order id that order creation returned.
Signable(b) ==
    b.razorpay_signature \in
        { generatedSignature(Configured.RAZORPAY_KEY_SECRET, o, p)
            : o \in OrderIds, p \in PaymentIds }
    => b.razorpay_order_id \in (GatewayOrders \cap issued) \cup {""}

VerifyRequests ==
    {[method |-> "POST", body |-> b] : b \in {v \in VerifyBodies : Signable(v)}}
    \cup {[method |-> "GET", body |-> EmptyBody]}

\* a weaker test, for comparison: the signature is not required
MissingPaymentFields_noSignature(b) ==
    b.razorpay_order_id = "" \/ b.razorpay_payment_id = ""

\* !razorpay_order_id || !razorpay_payment_id || !razorpay_signature
MissingPaymentFields(b) ==
    b.razorpay_order_id = "" \/ b.razorpay_payment_id = "" \/ b.razorpay_signature = ""

\* a weaker test, for comparison: only the presence of a signature is tested
signatureMismatch_presenceOnly(generated, received) == received = ""

\* generatedSignature !== razorpay_signature
signatureMismatch(generated, received) == generated # received

\* ghost: on arrival some document of the order is paid
PaidOnArrival(store, b) ==
    \E i \in DOMAIN store :
        /\ store[i].razorpay_order_id = b.razorpay_order_id
        /\ b.razorpay_order_id # ""
        /\ store[i].status = "paid"

\* ghost: on arrival some document of the order is paid by this very payload
Replay(store, b) ==
    \E i \in DOMAIN store :
        /\ store[i].razorpay_order_id = b.razorpay_order_id
        /\ b.razorpay_order_id # ""
        /\ store[i].status = "paid"
        /\ store[i].razorpay_payment_id = b.razorpay_payment_id
        /\ store[i].razorpay_signature = b.razorpay_signature

\* ghost: on arrival the order has a document
KnownOnArrival(store, b) ==
    \E i \in DOMAIN store :
        /\ store[i].razorpay_order_id = b.razorpay_order_id
        /\ b.razorpay_order_id # ""

NewRequest(h, q) ==
    [Idle EXCEPT !.h = h, !.pc = "start", !.method = q.method, !.body = q.body,
                 !.known = KnownOnArrival(docs, q.body),
                 !.paid = PaidOnArrival(docs, q.body),
                 !.replay = Replay(docs, q.body)]

\* an invocation starts in the first slot that is free
FreeSlot(s) ==
    /\ reqs[s].pc \in {"idle", "done"}
    /\ \A t \in Slots : t < s => reqs[t].pc \notin {"idle", "done"}

\* The invocation in slot s becomes r.  An answered invocation is kept in its
\* slot for inspection until the next step of any invocation.
Put(s, r) ==
    [t \in Slots |-> IF t = s THEN r
                     ELSE IF reqs[t].pc = "done" THEN Idle ELSE reqs[t]]

\* an invocation of the deployed function h may start in slot s
CanArrive(s, h) ==
    /\ arrived < MaxRequests
    /\ h \in {functions.verifyPayment, functions.createOrder}
    /\ FreeSlot(s)

\* the order id in a success response of order creation reaches the caller
IssuedBy(r) ==
    IF r.pc = "done" /\ r.resp.success /\ r.order # "" THEN {r.order} ELSE {}

Answer(s, r) ==
    /\ reqs' = Put(s, r)
    /\ issued' = issued \cup IssuedBy(r)

Arrive(s, r) ==
    /\ Answer(s, r)
    /\ arrived' = arrived + 1
    /\ UNCHANGED <<env, functions, docs, gwOrders, calc>>

\* a step of the invocation in slot s that changes only its own state
Step(s, r) ==
    /\ Answer(s, r)
    /\ UNCHANGED <<env, functions, docs, gwOrders, arrived, calc>>

\* a step that also writes the store
StoreStep(s, r, store) ==
    /\ Answer(s, r)
    /\ docs' = store
    /\ UNCHANGED <<env, functions, gwOrders, arrived, calc>>

At(s, h, pc) == reqs[s].h = h /\ reqs[s].pc = pc

(* ------------------- verifyPayment, update-only variant --------------- *)

\* new Razorpay({ key_id, key_secret }) refuses a missing key_id
RazorpayRejects(e) == e.RAZORPAY_KEY_ID = ""

\* Math.round(Number(expectedAmount) * 100)
expectedPaise(amount) == MathRound(amount * 100)

\* for comparison: a check that also fails when no payment details were fetched
UpdateOnly_amountMismatch_needsDetails(b, pd) ==
    /\ Truthy(b.amount)
    /\ (pd = <<>> \/ pd[1].amount # expectedPaise(b.amount[1]))

\* the amount cross-check is made and fails
UpdateOnly_amountMismatch(b, pd) ==
    /\ Truthy(b.amount)
    /\ pd # <<>>
    /\ pd[1].amount # expectedPaise(b.amount[1])

\* for comparison: the diagnostic status is the generic one
UpdateOnly_signatureMismatchData_generic(b, generated) ==
    [ razorpay_payment_id |-> b.razorpay_payment_id,
      razorpay_signature  |-> b.razorpay_signature,
      status              |-> "failed",
      verification_raw    |-> "{reason:signature_mismatch}" ]

\* lines 204-213
UpdateOnly_signatureMismatchData(b, generated) ==
    [ razorpay_payment_id |-> b.razorpay_payment_id,
      razorpay_signature  |-> b.razorpay_signature,
      status              |-> "payment_failed_signature",
      verification_raw    |-> "{reason:signature_mismatch,generatedSignature:" \o generated
                              \o ",receivedSignature:" \o b.razorpay_signature \o "}" ]

UpdateOnly_amountMismatchData(b) ==
    [ razorpay_payment_id |-> b.razorpay_payment_id,
      razorpay_signature  |-> b.razorpay_signature,
      status              |-> "payment_failed_amount_mismatch",
      verification_raw    |-> "{reason:amount_mismatch}" ]

UpdateOnly_updatePayload(b, pd) ==
    LET base == [ razorpay_payment_id |-> b.razorpay_payment_id,
                  razorpay_signature  |-> b.razorpay_signature,
                  status              |-> "paid",
                  verification_raw    |-> "{verifiedAt,paymentDetails:"
                      \o (IF pd = <<>> THEN "null" ELSE pd[1].status) \o "}" ]
    IN  IF pd = <<>> THEN base
        ELSE [ amountPaisePaid |-> Some(pd[1].amount),
               payment_status  |-> pd[1].status ] @@ base

\* lines 135-223: up to the first await
UpdateOnly_start(s) ==
    /\ CanArrive(s, "UpdateOnly")
    /\ \E q \in VerifyRequests :
        LET r == NewRequest("UpdateOnly", q)
            b == q.body
            generated == generatedSignature(env.RAZORPAY_KEY_SECRET,
                             b.razorpay_order_id, b.razorpay_payment_id)
        IN  Arrive(s,
              IF RazorpayRejects(env)
                THEN RespondError(r, "", "key_id is mandatory")
              ELSE IF q.method # "POST"
                THEN Respond(r, 405, FALSE, "Method not allowed")
              ELSE IF MissingPaymentFields(b)
                THEN Respond(r, 400, FALSE, "Missing required payment fields")
              ELSE IF signatureMismatch(generated, b.razorpay_signature)
                THEN Await(r, "mismatch.listDocuments")
              ELSE Await(r, "payments.fetch"))

\* for comparison: a failed best-effort call reaches the outer catch
UpdateOnly_afterBestEffort_surfacing(r, ok, message) ==
    IF ok THEN Respond(r, 400, FALSE, message)
          ELSE RespondError(r, "", "store call failed")

\* lines 216-220 and 269-276: the inner catch only logs; the answer that
\* follows is the same whether the best-effort calls succeeded or threw
UpdateOnly_afterBestEffort(r, ok, message) ==
    Respond(r, 400, FALSE, message)

\* lines 191-220: best-effort lookup after a signature mismatch
UpdateOnly_mismatchList(s) ==
    /\ At(s, "UpdateOnly", "mismatch.listDocuments")
    /\ \E ok \in BOOLEAN :
        LET r == Called(reqs[s], "listDocuments", ok, "")
            doc == listDocuments(docs, r.body.razorpay_order_id)
        IN  Step(s, IF ok /\ doc # 0
                      THEN Await([r EXCEPT !.doc = doc], "mismatch.updateDocument")
                      ELSE UpdateOnly_afterBestEffort(r, ok, "Invalid signature"))

UpdateOnly_mismatchUpdate(s) ==
    /\ At(s, "UpdateOnly", "mismatch.updateDocument")
    /\ \E ok \in BOOLEAN :
        LET b == reqs[s].body
            data == UpdateOnly_signatureMismatchData(b,
                        generatedSignature(env.RAZORPAY_KEY_SECRET,
                            b.razorpay_order_id, b.razorpay_payment_id))
            r == Called(reqs[s], "updateDocument", ok, data.status)
        IN  StoreStep(s, UpdateOnly_afterBestEffort(r, ok, "Invalid signature"),
                      IF ok THEN updateDocument(docs, r.doc, data) ELSE docs)

\* lines 225-278: payment details, then the amount cross-check
UpdateOnly_fetch(s) ==
    /\ At(s, "UpdateOnly", "payments.fetch")
    /\ \E pd \in {<<>>} \cup {<<paymentsFetch(reqs[s].body.razorpay_payment_id, st)>>
                                : st \in PaymentStatuses} :
        LET r == [Called(reqs[s], "payments.fetch", pd # <<>>, "") EXCEPT !.pd = pd]
        IN  Step(s, IF UpdateOnly_amountMismatch(r.body, pd)
                      THEN Await(r, "amount.listDocuments")
                      ELSE Await(r, "listDocuments"))

UpdateOnly_amountList(s) ==
    /\ At(s, "UpdateOnly", "amount.listDocuments")
    /\ \E ok \in BOOLEAN :
        LET r == Called(reqs[s], "listDocuments", ok, "")
            doc == listDocuments(docs, r.body.razorpay_order_id)
        IN  Step(s, IF ok /\ doc # 0
                      THEN Await([r EXCEPT !.doc = doc], "amount.updateDocument")
                      ELSE UpdateOnly_afterBestEffort(r, ok, "Payment amount mismatch"))

UpdateOnly_amountUpdate(s) ==
    /\ At(s, "UpdateOnly", "amount.updateDocument")
    /\ \E ok \in BOOLEAN :
        LET data == UpdateOnly_amountMismatchData(reqs[s].body)
            r == Called(reqs[s], "updateDocument", ok, data.status)
        IN  StoreStep(s, UpdateOnly_afterBestEffort(r, ok, "Payment amount mismatch"),
                      IF ok THEN updateDocument(docs, r.doc, data) ELSE docs)

\* for comparison: the `if (!doc)` test is left out, and doc.$id throws into the catch
UpdateOnly_found_noAbsentTest(r, ok, doc) ==
    IF ~ok \/ doc = 0 THEN Respond(r, 500, FALSE, "Failed to update order: ")
    ELSE Await([r EXCEPT !.doc = doc], "updateDocument")

\* lines 288-292 and 321-327: what follows the lookup of the order document
UpdateOnly_found(r, ok, doc) ==
    IF ~ok THEN Respond(r, 500, FALSE, "Failed to update order: ")
    ELSE IF doc = 0 THEN Respond(r, 404, FALSE, "Order not found")
    ELSE Await([r EXCEPT !.doc = doc], "updateDocument")

\* lines 280-327: find the order document and update it to paid
UpdateOnly_list(s) ==
    /\ At(s, "UpdateOnly", "listDocuments")
    /\ \E ok \in BOOLEAN :
        LET r == Called(reqs[s], "listDocuments", ok, "")
        IN  Step(s, UpdateOnly_found(r, ok, listDocuments(docs, r.body.razorpay_order_id)))

UpdateOnly_update(s) ==
    /\ At(s, "UpdateOnly", "updateDocument")
    /\ \E ok \in BOOLEAN :
        LET data == UpdateOnly_updatePayload(reqs[s].body, reqs[s].pd)
            r == Called(reqs[s], "updateDocument", ok, data.status)
        IN  IF ok
              THEN StoreStep(s, Respond(r, 200, TRUE, "Payment verified and order updated"),
                             updateDocument(docs, r.doc, data))
              ELSE Step(s, Respond(r, 500, FALSE, "Failed to update order: "))

(* --------------- verifyPayment, create-or-update variant -------------- *)

\* typeof amount !== "undefined" && paymentDetails?.amount !== undefined, and
\* Number(paymentDetails.amount) !== Math.round(Number(amount) * 100)
CreateOrUpdate_amountMismatch(b, pd) ==
    /\ b.amount # NoNumber
    /\ pd # <<>>
    /\ pd[1].amount # expectedPaise(b.amount[1])

\* x || null, for a number
OrNull(v) == IF Truthy(v) THEN v ELSE NoNumber

CreateOrUpdate_payload(b, pd) ==
    [ userId              |-> b.userId,
      amount              |-> b.amount,
      amountPaise         |-> IF pd = <<>> THEN NoNumber ELSE OrNull(Some(pd[1].amount)),
      razorpay_order_id   |-> b.razorpay_order_id,
      razorpay_payment_id |-> b.razorpay_payment_id,
      razorpay_signature  |-> b.razorpay_signature,
      status              |-> "paid",
      verification_raw    |-> "{paymentDetails:"
                              \o (IF pd = <<>> THEN "null" ELSE pd[1].status) \o "}" ]

\* lines 26-65: up to the first await
CreateOrUpdate_start(s) ==
    /\ CanArrive(s, "CreateOrUpdate")
    /\ \E q \in VerifyRequests :
        LET r == NewRequest("CreateOrUpdate", q)
            b == q.body
            generated == generatedSignature(env.RAZORPAY_KEY_SECRET,
                             b.razorpay_order_id, b.razorpay_payment_id)
        IN  Arrive(s,
              IF q.method # "POST"
                THEN Respond(r, 405, FALSE, "Method not allowed")
              ELSE IF MissingPaymentFields(b)
                THEN Respond(r, 400, FALSE, "Missing required payment fields")
              ELSE IF MissingRazorpayEnv(env)
                THEN Respond(r, 500, FALSE,
                             "Server misconfiguration: missing Razorpay credentials")
              ELSE IF signatureMismatch(generated, b.razorpay_signature)
                THEN Respond(r, 400, FALSE, "Invalid signature")
              ELSE Await(r, "payments.fetch"))

\* lines 67-96
CreateOrUpdate_fetch(s) ==
    /\ At(s, "CreateOrUpdate", "payments.fetch")
    /\ \E pd \in {<<>>} \cup {<<paymentsFetch(reqs[s].body.razorpay_payment_id, st)>>
                                : st \in PaymentStatuses} :
        LET r == [Called(reqs[s], "payments.fetch", pd # <<>>, "") EXCEPT !.pd = pd]
        IN  Step(s, IF CreateOrUpdate_amountMismatch(r.body, pd)
                      THEN Respond(r, 400, FALSE, "Payment amount mismatch")
                      ELSE Await(r, "listDocuments"))

\* lines 92-121
CreateOrUpdate_list(s) ==
    /\ At(s, "CreateOrUpdate", "listDocuments")
    /\ \E ok \in BOOLEAN :
        LET r == Called(reqs[s], "listDocuments", ok, "")
            doc == listDocuments(docs, r.body.razorpay_order_id)
        IN  Step(s, IF ~ok THEN RespondError(r, "Unexpected error", "listDocuments failed")
                    ELSE IF doc # 0 THEN Await([r EXCEPT !.doc = doc], "updateDocument")
                    ELSE Await(r, "createDocument"))

CreateOrUpdate_update(s) ==
    /\ At(s, "CreateOrUpdate", "updateDocument")
    /\ \E ok \in BOOLEAN :
        LET data == CreateOrUpdate_payload(reqs[s].body, reqs[s].pd)
            r == Called(reqs[s], "updateDocument", ok, data.status)
        IN  IF ok
              THEN StoreStep(s, Respond(r, 200, TRUE, "Payment verified and order saved"),
                             updateDocument(docs, r.doc, data))
              ELSE Step(s, RespondError(r, "Unexpected error", "updateDocument failed"))

CreateOrUpdate_create(s) ==
    /\ At(s, "CreateOrUpdate", "createDocument")
    /\ \E ok \in BOOLEAN :
        LET data == CreateOrUpdate_payload(reqs[s].body, reqs[s].pd)
            r == Called(reqs[s], "createDocument", ok, data.status)
        IN  IF ok
              THEN StoreStep(s, Respond(r, 200, TRUE, "Payment verified and order saved"),
                             createDocument(docs, data))
              ELSE Step(s, RespondError(r, "Unexpected error", "createDocument failed"))

(* ------------------- verifyPayment, shipping variant ------------------ *)

\* amounts below this are taken for rupees
RupeeCeiling == 1000
\* integers below this are taken for rupees as well
PaiseFloor == 1000000

\* part_001 lines 101-108: the declared amount in paise
Shipping_expectedPaise(amount) ==
    IF amount < Num(RupeeCeiling) THEN MathRound(amount * 100)
    ELSE IF amount < Num(PaiseFloor) /\ IsInteger(amount) THEN MathRound(amount * 100)
    ELSE amount

Shipping_amountMismatch(b, pd) ==
    /\ b.amount # NoNumber
    /\ pd # <<>>
    /\ pd[1].amount # Shipping_expectedPaise(b.amount[1])

Shipping_payload(b, pd) ==
    [ userId              |-> b.userId,
      amount              |-> b.amount,
      amountPaise         |-> IF pd = <<>> THEN NoNumber ELSE OrNull(Some(pd[1].amount)),
      razorpay_order_id   |-> b.razorpay_order_id,
      razorpay_payment_id |-> b.razorpay_payment_id,
      razorpay_signature  |-> b.razorpay_signature,
      status              |-> "paid",
      verification_raw    |-> "{paymentDetails:"
                              \o (IF pd = <<>> THEN "null" ELSE pd[1].status) \o "}" ]

\* part_001 lines 33-86: up to the first await
Shipping_start(s) ==
    /\ CanArrive(s, "Shipping")
    /\ \E q \in VerifyRequests :
        LET r == NewRequest("Shipping", q)
            b == q.body
            generated == generatedSignature(env.RAZORPAY_KEY_SECRET,
                             b.razorpay_order_id, b.razorpay_payment_id)
        IN  Arrive(s,
              IF q.method # "POST"
                THEN Respond(r, 405, FALSE, "Method not allowed")
              ELSE IF MissingPaymentFields(b)
                THEN Respond(r, 400, FALSE, "Missing required payment fields")
              ELSE IF MissingRazorpayEnv(env)
                THEN Respond(r, 500, FALSE,
                             "Server misconfiguration: missing Razorpay credentials")
              ELSE IF signatureMismatch(generated, b.razorpay_signature)
                THEN Respond(r, 400, FALSE, "Invalid signature")
              ELSE Await(r, "payments.fetch"))

\* part_001 lines 88-137: payment details, amount check, Appwrite settings
Shipping_fetch(s) ==
    /\ At(s, "Shipping", "payments.fetch")
    /\ \E pd \in {<<>>} \cup {<<paymentsFetch(reqs[s].body.razorpay_payment_id, st)>>
                                : st \in PaymentStatuses} :
        LET r == [Called(reqs[s], "payments.fetch", pd # <<>>, "") EXCEPT !.pd = pd]
        IN  Step(s, IF Shipping_amountMismatch(r.body, pd)
                      THEN Respond(r, 400, FALSE, "Payment amount mismatch")
                    ELSE IF ~env.APPWRITE
                      THEN Respond(r, 500, FALSE,
                                   "Server misconfiguration: missing Appwrite config")
                    ELSE Await(r, "listDocuments"))

\* part_001 lines 132-211: a failed lookup continues as "no document"
Shipping_list(s) ==
    /\ At(s, "Shipping", "listDocuments")
    /\ \E ok \in BOOLEAN :
        LET r == Called(reqs[s], "listDocuments", ok, "")
            doc == IF ok THEN listDocuments(docs, r.body.razorpay_order_id) ELSE 0
        IN  Step(s, IF doc # 0 THEN Await([r EXCEPT !.doc = doc], "updateDocument")
                    ELSE Await(r, "createDocument"))

Shipping_update(s) ==
    /\ At(s, "Shipping", "updateDocument")
    /\ \E ok \in BOOLEAN :
        LET data == Shipping_payload(reqs[s].body, reqs[s].pd)
            r == Called(reqs[s], "updateDocument", ok, data.status)
        IN  IF ok
              THEN StoreStep(s, Respond(r, 200, TRUE, "Payment verified and order saved"),
                             updateDocument(docs, r.doc, data))
              ELSE Step(s, RespondError(r, "Unexpected error", "updateDocument failed"))

Shipping_create(s) ==
    /\ At(s, "Shipping", "createDocument")
    /\ \E ok \in BOOLEAN :
        LET data == Shipping_payload(reqs[s].body, reqs[s].pd)
            r == Called(reqs[s], "createDocument", ok, data.status)
        IN  IF ok
              THEN StoreStep(s, Respond(r, 200, TRUE, "Payment verified and order saved"),
                             createDocument(docs, data))
              ELSE Step(s, RespondError(r, "Unexpected error", "createDocument failed"))

(* ------------------------------ createOrder --------------------------- *)

\* part_002 line 157: `cod_${Date.now()}_${random}`.  The clock moves with
\* every arrival, so the id is a new one, or (same millisecond, same random
\* number) the id of an invocation that has not got past its first await
CodIds ==
    {"cod_" \o ToString(arrived + 1)}
    \cup {reqs[s].order : s \in {t \in Slots : /\ reqs[t].h = "createOrder"
                                              /\ reqs[t].pc = "listDocuments"
                                              /\ reqs[t].ops = <<>>}}

\* acceptable orders (gateway-paid, collect-on-delivery, and one naming
\* another payment method), and orders with one required part left out or
\* with an amount that is not positive
CreateBodies ==
    { [EmptyBody EXCEPT !.userId = "u1", !.shipping = TRUE, !.size = TRUE,
                        !.amount = Some(Num(499)), !.paymentMethod = m]
        : m \in {"", "cod", "upi"} }
    \cup
    { [EmptyBody EXCEPT !.userId = f[1], !.shipping = f[2], !.size = f[3], !.amount = f[4]]
        : f \in { <<"", TRUE, TRUE, Some(Num(499))>>,
                  <<"u1", FALSE, TRUE, Some(Num(499))>>,
                  <<"u1", TRUE, FALSE, Some(Num(499))>>,
                  <<"u1", TRUE, TRUE, NoNumber>>,
                  <<"u1", TRUE, TRUE, Some(Num(0))>>,
                  <<"u1", TRUE, TRUE, Some(Num(-5))>> } }

CreateRequests ==
    {[method |-> "POST", body |-> b] : b \in CreateBodies}
    \cup {[method |-> "GET", body |-> EmptyBody], [method |-> "PUT", body |-> EmptyBody]}

\* (paymentMethod || payment_method || "razorpay").toLowerCase()
pm(b) == IF b.paymentMethod = "" THEN "razorpay" ELSE b.paymentMethod

\* for comparison: only a missing amount is refused
InvalidAmount_missingOnly(a) == a = NoNumber

\* !amount || isNaN(Number(amount)) || Number(amount) <= 0
InvalidAmount(a) == ~Truthy(a) \/ a[1] <= 0

\* Math.round(Number(amount || 0) * 100)
amountPaiseFromClient(a) == MathRound((IF Truthy(a) THEN a[1] ELSE 0) * 100)

createOrder_payload(b, order_id, amountPaise) ==
    [ userId            |-> b.userId,
      amount            |-> Some(amountPaise),
      amountPaise       |-> Some(amountPaise),
      razorpay_order_id |-> order_id,
      status            |-> IF pm(b) = "cod" THEN "pending" ELSE "created",
      verification_raw  |-> "{razorpayOrder:"
                            \o (IF pm(b) = "razorpay" THEN order_id ELSE "null") \o "}" ]

createOrder_success(r) ==
    [Respond(r, 200, TRUE, "") EXCEPT !.pc = "done"]

\* part_002 lines 174-258: without the Appwrite settings the save is skipped
createOrder_save(r) ==
    IF env.APPWRITE THEN Await(r, "listDocuments") ELSE createOrder_success(r)

\* part_002 lines 56-160: validation, up to the first await
createOrder_start(s) ==
    /\ CanArrive(s, "createOrder")
    /\ \E q \in CreateRequests, cod \in CodIds :
        LET r == NewRequest("createOrder", q)
            b == q.body
        IN  Arrive(s,
              IF q.method = "GET"
                THEN Respond(r, 200, TRUE, "createOrder function is live")
              ELSE IF q.method # "POST"
                THEN Respond(r, 405, FALSE, "Method not allowed")
              ELSE IF b.userId = ""
                THEN Respond(r, 400, FALSE, "userId is required. Please login and send userId.")
              ELSE IF ~b.shipping
                THEN Respond(r, 400, FALSE, "shipping is required. Provide shipping object/array.")
              ELSE IF ~b.size
                THEN Respond(r, 400, FALSE, "size is required (e.g. send size in items[0].size).")
              ELSE IF pm(b) = "razorpay" /\ InvalidAmount(b.amount)
                THEN Respond(r, 400, FALSE, "Valid amount (in rupees) required for razorpay orders")
              ELSE IF pm(b) = "razorpay" /\ MissingRazorpayEnv(env)
                THEN Respond(r, 500, FALSE, "Razorpay credentials not configured")
              ELSE IF pm(b) = "razorpay"
                THEN Await([r EXCEPT !.amountPaise = Some(amountPaiseFromClient(b.amount))],
                           "orders.create")
              ELSE createOrder_save(
                     [r EXCEPT !.order = cod,
                               !.amountPaise = Some(amountPaiseFromClient(b.amount))]))

\* part_002 lines 146-154 (a rejection reaches the outer catch, 269-271)
createOrder_ordersCreate(s) ==
    /\ At(s, "createOrder", "orders.create")
    /\ \E ok \in BOOLEAN :
        LET r == Called(reqs[s], "orders.create", ok, "")
        IN  /\ Answer(s,
                 IF ok THEN createOrder_save([r EXCEPT !.order = ordersCreateId(gwOrders + 1)])
                       ELSE RespondError(r, "", "orders.create failed"))
            /\ gwOrders' = IF ok THEN gwOrders + 1 ELSE gwOrders
            /\ UNCHANGED <<env, functions, docs, arrived, calc>>

\* part_002 lines 231-241: a failed lookup continues as "no document"
createOrder_list(s) ==
    /\ At(s, "createOrder", "listDocuments")
    /\ \E ok \in BOOLEAN :
        LET r == Called(reqs[s], "listDocuments", ok, "")
            doc == IF ok THEN listDocuments(docs, r.order) ELSE 0
        IN  Step(s, IF doc # 0 THEN Await([r EXCEPT !.doc = doc], "updateDocument")
                    ELSE Await(r, "createDocument"))

\* razorpayOrder.amount is the amount asked for; COD keeps the client's
createOrder_data(r) ==
    createOrder_payload(r.body, r.order, r.amountPaise[1])

\* part_002 lines 243-255
createOrder_update(s) ==
    /\ At(s, "createOrder", "updateDocument")
    /\ \E ok \in BOOLEAN :
        LET data == createOrder_data(reqs[s])
            r == Called(reqs[s], "updateDocument", ok, data.status)
        IN  IF ok
              THEN StoreStep(s, createOrder_success(r), updateDocument(docs, r.doc, data))
              ELSE Step(s, RespondError(r, "Failed saving order to DB", "updateDocument failed"))

createOrder_create(s) ==
    /\ At(s, "createOrder", "createDocument")
    /\ \E ok \in BOOLEAN :
        LET data == createOrder_data(reqs[s])
            r == Called(reqs[s], "createDocument", ok, data.status)
        IN  IF ok
              THEN StoreStep(s, createOrder_success(r), createDocument(docs, data))
              ELSE Step(s, RespondError(r, "Failed saving order to DB", "createDocument failed"))

(* ----------------------- create-order script (main) ------------------- *)

\* the function payload: amount and userId
MainBodies ==
    { [EmptyBody EXCEPT !.userId = u, !.amount = a]
        : u \in {"u1", ""}, a \in {NoNumber, Some(Num(499))} }

\* process.exit(code) after printing { success, message }
Exit(r, code, message) ==
    [r EXCEPT !.pc = "done",
              !.resp = [status |-> code, success |-> code = 0,
                        message |-> message, error |-> ""]]

main_localOrder(b, order_id) ==
    [ userId            |-> b.userId,
      amount            |-> b.amount,
      razorpay_order_id |-> order_id,
      status            |-> "created" ]

\* part_003 lines 6-74
main_start(s) ==
    /\ CanArrive(s, "main")
    /\ \E b \in MainBodies :
        LET r == NewRequest("main", [method |-> "", body |-> b])
        IN  Arrive(s,
              IF ~Truthy(b.amount) \/ b.userId = ""
                THEN Exit(r, 1, "amount and userId required")
              ELSE IF MissingRazorpayEnv(env)
                THEN Exit(r, 1, "missing razorpay keys")
              ELSE IF ~env.APPWRITE
                THEN Exit(r, 1, "missing appwrite server config")
              ELSE Await([r EXCEPT !.amountPaise = Some(MathRound(b.amount[1] * 100))],
                         "orders.create"))

\* part_003 lines 74-75
main_ordersCreate(s) ==
    /\ At(s, "main", "orders.create")
    /\ \E ok \in BOOLEAN :
        LET r == Called(reqs[s], "orders.create", ok, "")
        IN  /\ Answer(s,
                 IF ok THEN Await([r EXCEPT !.order = ordersCreateId(gwOrders + 1)],
                                  "createDocument")
                       ELSE Exit(r, 1, "orders.create failed"))
            /\ gwOrders' = IF ok THEN gwOrders + 1 ELSE gwOrders
            /\ UNCHANGED <<env, functions, docs, arrived, calc>>

\* part_003 lines 98-121
main_create(s) ==
    /\ At(s, "main", "createDocument")
    /\ \E ok \in BOOLEAN :
        LET data == main_localOrder(reqs[s].body, reqs[s].order)
            r == Called(reqs[s], "createDocument", ok, data.status)
        IN  IF ok
              THEN StoreStep(s, Exit(r, 0, ""), createDocument(docs, data))
              ELSE Step(s, Exit(r, 1, "createDocument failed"))

(* ---------------------------- specification --------------------------- *)

NoCalc == [amount |-> NoNumber, verify |-> NoNumber, create |-> NoNumber]

\* one version of verifyPayment and one of createOrder are deployed
Deployments ==
    [ verifyPayment : {"CreateOrUpdate", "UpdateOnly", "Shipping"},
      createOrder   : {"createOrder", "main"} ]

Init ==
    /\ env \in Envs
    /\ functions \in Deployments
    /\ docs = <<>>
    /\ gwOrders = 0
    /\ issued = {}
    /\ reqs = [s \in Slots |-> Idle]
    /\ arrived = 0
    /\ calc = NoCalc

Next ==
    \E s \in Slots :
        \/ UpdateOnly_start(s)
        \/ UpdateOnly_mismatchList(s)
        \/ UpdateOnly_mismatchUpdate(s)
        \/ UpdateOnly_fetch(s)
        \/ UpdateOnly_amountList(s)
        \/ UpdateOnly_amountUpdate(s)
        \/ UpdateOnly_list(s)
        \/ UpdateOnly_update(s)
        \/ CreateOrUpdate_start(s)
        \/ CreateOrUpdate_fetch(s)
        \/ CreateOrUpdate_list(s)
        \/ CreateOrUpdate_update(s)
        \/ CreateOrUpdate_create(s)
        \/ Shipping_start(s)
        \/ Shipping_fetch(s)
        \/ Shipping_list(s)
        \/ Shipping_update(s)
        \/ Shipping_create(s)
        \/ createOrder_start(s)
        \/ createOrder_ordersCreate(s)
        \/ createOrder_list(s)
        \/ createOrder_update(s)
        \/ createOrder_create(s)
        \/ main_start(s)
        \/ main_ordersCreate(s)
        \/ main_create(s)

Spec == Init /\ [][Next]_vars

(* ------------------- specification of amount resolution --------------- *)
(* The declared amount as the shipping variant of verifyPayment resolves   *)
(* it (part_001 lines 101-108) and as createOrder stores it (part_002      *)
(* line 139), for amounts around the two limits of the heuristic.          *)

\* whole amounts around the limits, and the amounts up to 7/8 above each
AmountInputs ==
    { Num(b) + f : b \in {1, 499, 999, 1000, 49900, 999999, 1000000}, f \in 0..7 }

InitAmount ==
    /\ env = Configured
    /\ functions = [verifyPayment |-> "Shipping", createOrder |-> "createOrder"]
    /\ docs = <<>>
    /\ gwOrders = 0
    /\ issued = {}
    /\ reqs = [s \in Slots |-> Idle]
    /\ arrived = 0
    /\ calc \in [amount : {Some(a) : a \in AmountInputs},
                 verify : {NoNumber}, create : {NoNumber}]

\* verifyPayment (shipping) computes expectedPaise from the declared amount
Shipping_resolveAmount ==
    /\ calc.verify = NoNumber
    /\ calc' = [calc EXCEPT !.verify = Some(Shipping_expectedPaise(calc.amount[1]))]
    /\ UNCHANGED <<env, functions, docs, gwOrders, issued, reqs, arrived>>

\* createOrder accepts the amount and computes amountPaiseFromClient
createOrder_resolveAmount ==
    /\ calc.create = NoNumber
    /\ ~InvalidAmount(calc.amount)
    /\ calc' = [calc EXCEPT !.create = Some(amountPaiseFromClient(calc.amount))]
    /\ UNCHANGED <<env, functions, docs, gwOrders, issued, reqs, arrived>>

NextAmount == Shipping_resolveAmount \/ createOrder_resolveAmount

SpecAmount == InitAmount /\ [][NextAmount]_vars

(* -------------------------------- claims ------------------------------ *)
(* Claims about what a handler answers are read for a deployment whose     *)
(* Razorpay credentials are set; what an incomplete configuration does is  *)
(* the subject of a claim of its own.                                      *)

VerifyHandlers == {"CreateOrUpdate", "UpdateOnly", "Shipping"}

IsVerify(r) == r.h \in VerifyHandlers

Answered(r) == r.pc = "done"

\* hex(HMAC-SHA256(secret, gatewayOrderId + "|" + gatewayPaymentId))
ExpectedSignature(b) ==
    Hmac(env.RAZORPAY_KEY_SECRET, b.razorpay_order_id \o "|" \o b.razorpay_payment_id)

LacksField(b) ==
    b.razorpay_order_id = "" \/ b.razorpay_payment_id = "" \/ b.razorpay_signature = ""

\* a complete POST whose signature is not the expected one
Tampered(r) ==
    /\ IsVerify(r)
    /\ r.method = "POST"
    /\ ~LacksField(r.body)
    /\ ~MissingRazorpayEnv(env)
    /\ r.body.razorpay_signature # ExpectedSignature(r.body)

\* the invocation issued a document write carrying status `paid`
WritesPaid(r) == \E i \in DOMAIN r.ops : r.ops[i].status = "paid"

StoreCalls == {"listDocuments", "createDocument", "updateDocument"}

\* C1: in every verification handler a write with status `paid` is issued only
\* by a request whose signature equals hex(HMAC-SHA256(secret, order|payment)),
\* so every paid record carries the signature of its own order and payment; a
\* request whose signature differs is answered 400 "Invalid signature" and
\* issues no write with status `paid`.
C1_PaidOnlyOnValidSignature ==
    /\ \A s \in Slots :
         LET r == reqs[s] IN
         /\ (IsVerify(r) /\ WritesPaid(r))
              => r.body.razorpay_signature = ExpectedSignature(r.body)
         /\ (Tampered(r) /\ Answered(r))
              => /\ r.resp.status = 400
                 /\ r.resp.message = "Invalid signature"
                 /\ ~WritesPaid(r)
    /\ \A i \in DOMAIN docs :
         docs[i].status = "paid"
           => docs[i].razorpay_signature =
                Hmac(env.RAZORPAY_KEY_SECRET,
                     docs[i].razorpay_order_id \o "|" \o docs[i].razorpay_payment_id)

\* a forged signature for an order whose record exists: the update-only
\* variant has looked the record up and written to it, and answered 400
C1_Witness ==
    \E s \in Slots :
        /\ Tampered(reqs[s]) /\ Answered(reqs[s])
        /\ reqs[s].h = "UpdateOnly"
        /\ Len(reqs[s].ops) = 2 /\ reqs[s].ops[2].ok
        /\ reqs[s].resp.status = 400

\* C6: a verification request lacking the order id, the payment id or the
\* signature is answered at once, with 400, and has made no gateway call and
\* no document-store call.
C6_MissingFieldsNoCalls ==
    \A s \in Slots :
        LET r == reqs[s] IN
        (IsVerify(r) /\ r.method = "POST" /\ LacksField(r.body))
          => /\ Answered(r)
             /\ r.ops = <<>>
             /\ ~MissingRazorpayEnv(env) => r.resp.status = 400

\* the signature is left out for an order whose record is in the store
C6_Witness ==
    \E s \in Slots :
        /\ IsVerify(reqs[s]) /\ reqs[s].method = "POST" /\ Answered(reqs[s])
        /\ reqs[s].body.razorpay_signature = ""
        /\ listDocuments(docs, reqs[s].body.razorpay_order_id) # 0
        /\ reqs[s].resp.status = 400

\* every call the invocation made succeeded
AllCallsOk(r) == \A i \in DOMAIN r.ops : r.ops[i].ok

\* the signature check passed and the lookup of the order, made without
\* error, returned no document
LookupFoundNone(r) ==
    /\ r.method = "POST"
    /\ r.body.razorpay_signature = ExpectedSignature(r.body)
    /\ Len(r.ops) = 2
    /\ r.ops[1].op = "payments.fetch"
    /\ r.ops[2].op = "listDocuments" /\ r.ops[2].ok
    /\ r.doc = 0

\* C5 as amended: the update-only variant answers 404 "Order not found" when
\* the signature check (and amount cross-check) passed and the lookup finds no
\* record, and it never issues createDocument.
C5_UpdateOnlyAbsentOrder ==
    \A s \in Slots :
        LET r == reqs[s] IN
        r.h = "UpdateOnly"
          => /\ \A i \in DOMAIN r.ops : r.ops[i].op # "createDocument"
             /\ (LookupFoundNone(r) /\ ~UpdateOnly_amountMismatch(r.body, r.pd))
                  => /\ Answered(r)
                     /\ r.resp.status = 404
                     /\ r.resp.message = "Order not found"

\* a validly signed verification of an order that has no record
C5_Witness ==
    \E s \in Slots :
        /\ reqs[s].h = "UpdateOnly"
        /\ LookupFoundNone(reqs[s])
        /\ reqs[s].resp.status = 404
        /\ listDocuments(docs, reqs[s].body.razorpay_order_id) = 0

\* C5 as stated: in every verification variant, a request that passed the
\* signature check and found no record is answered 404 "Order not found", and
\* no verification issues createDocument.
C5_AbsentOrderRejected ==
    \A s \in Slots :
        LET r == reqs[s] IN
        IsVerify(r)
          => /\ \A i \in DOMAIN r.ops : r.ops[i].op # "createDocument"
             /\ (LookupFoundNone(r) /\ r.body.amount = NoNumber)
                  => /\ Answered(r)
                     /\ r.resp.status = 404
                     /\ r.resp.message = "Order not found"

\* C7 as amended: in the update-only variant a tampered signature is answered
\* 400, and when the lookup and the update both succeed the record found has
\* status `payment_failed_signature` after the call; the update is skipped
\* only when the lookup fails or returns no record.
C7_UpdateOnlyMarksFailedSignature ==
    \A s \in Slots :
        LET r == reqs[s] IN
        (r.h = "UpdateOnly" /\ Tampered(r) /\ Answered(r))
          => /\ r.resp.status = 400
             /\ (Len(r.ops) = 1 /\ r.ops[1].ok)
                  => listDocuments(docs, r.body.razorpay_order_id) = 0
             /\ (Len(r.ops) = 2 /\ r.ops[2].ok)
                  => /\ docs[r.doc].razorpay_order_id = r.body.razorpay_order_id
                     /\ docs[r.doc].status = "payment_failed_signature"

\* the record of the order carries the diagnostic status after the call
C7_Witness ==
    \E s \in Slots :
        /\ reqs[s].h = "UpdateOnly" /\ Tampered(reqs[s]) /\ Answered(reqs[s])
        /\ AllCallsOk(reqs[s])
        /\ reqs[s].doc # 0
        /\ docs[reqs[s].doc].status = "payment_failed_signature"

\* C7 as stated: in every verification variant, a tampered signature for an
\* order whose record exists, with the store reachable, is answered 400 and
\* leaves the record with status `payment_failed_signature`.
C7_TamperedMarksFailedSignature ==
    \A s \in Slots :
        LET r == reqs[s]
            doc == listDocuments(docs, r.body.razorpay_order_id)
        IN  (Tampered(r) /\ Answered(r) /\ AllCallsOk(r) /\ doc # 0)
              => /\ r.resp.status = 400
                 /\ docs[doc].status = "payment_failed_signature"

\* a complete verification POST to a deployment with Razorpay credentials
CompleteVerify(r) ==
    /\ IsVerify(r)
    /\ r.method = "POST"
    /\ ~LacksField(r.body)
    /\ ~MissingRazorpayEnv(env)

\* no call of the invocation failed, and the settings it reads are present
Healthy(r) == AllCallsOk(r) /\ (r.h = "Shipping" => env.APPWRITE)

\* C2: once a record is `paid`, every step of a later verification attempt for
\* its order (whatever its signature or declared amount) leaves the record
\* unchanged, and the attempt is answered with success.
C2_PaidIsFinal ==
    [][\A s \in Slots :
         LET r == reqs'[s] IN
         (CompleteVerify(r) /\ r.paid /\ r # reqs[s])
           => /\ \A i \in DOMAIN docs :
                   (docs[i].razorpay_order_id = r.body.razorpay_order_id
                      /\ docs[i].status = "paid")
                     => docs'[i] = docs[i]
              /\ (Answered(r) /\ Healthy(r)) => r.resp.success]_vars

\* C3: a second verification with the very payload that paid the order (the
\* same order id, payment id and valid signature, no amount declared), none of
\* whose calls fails, is answered with success and issues neither
\* updateDocument nor createDocument.
C3_ReplayIssuesNoWrite ==
    \A s \in Slots :
        LET r == reqs[s] IN
        (CompleteVerify(r) /\ r.replay /\ Healthy(r)
           /\ r.body.razorpay_signature = ExpectedSignature(r.body)
           /\ r.body.amount = NoNumber)
          => /\ \A i \in DOMAIN r.ops :
                   r.ops[i].op \notin {"updateDocument", "createDocument"}
             /\ Answered(r) => r.resp.success

\* C4: the store never holds two records of one gateway order.
C4_OneRecordPerOrder ==
    \A i, j \in DOMAIN docs :
        (docs[i].razorpay_order_id = docs[j].razorpay_order_id
           /\ docs[i].razorpay_order_id \in GatewayOrders)
          => i = j

\* the declared amount in minor units, as the handler converts it
DeclaredPaise(r) ==
    IF r.h = "Shipping" THEN Shipping_expectedPaise(r.body.amount[1])
    ELSE expectedPaise(r.body.amount[1])

\* the invocation has set a record's status to `paid`
SetsPaid(r) == \E i \in DOMAIN r.ops : r.ops[i].status = "paid" /\ r.ops[i].ok

\* the order of the request has a record in the store
RecordExists(r) == listDocuments(docs, r.body.razorpay_order_id) # 0

\* C8: a verification (of an order that has a record) whose declared amount, in
\* minor units, differs from the amount of the fetched payment details never
\* sets a record's status to `paid` and is answered 400.
C8_AmountMismatchRejected ==
    \A s \in Slots :
        LET r == reqs[s] IN
        (CompleteVerify(r) /\ r.body.amount # NoNumber /\ r.pd # <<>>
           /\ r.pd[1].amount # DeclaredPaise(r) /\ RecordExists(r))
          => /\ ~SetsPaid(r)
             /\ (Answered(r) /\ Healthy(r)) => r.resp.status = 400

\* C9: the heuristic of verifyPayment resolves 499 to 49900 and 49900 to
\* 49900, resolves every non-integer amount to round(amount * 100), and
\* resolves an amount to the minor-unit value createOrder computes for it.
C9_AmountHeuristic ==
    (calc.verify # NoNumber)
      => LET amount == calc.amount[1]
             paise == calc.verify[1]
         IN  /\ amount = Num(499) => paise = Num(49900)
             /\ amount = Num(49900) => paise = Num(49900)
             /\ ~IsInteger(amount) => paise = MathRound(amount * 100)
             /\ calc.create # NoNumber => paise = calc.create[1]

\* C10: a verification (of an order that has a record) whose fetched payment
\* details report a status other than captured never sets a record's status
\* to `paid`, and is answered 400.
C10_UncapturedNotPaid ==
    \A s \in Slots :
        LET r == reqs[s] IN
        (CompleteVerify(r) /\ r.pd # <<>> /\ r.pd[1].status # "captured"
           /\ RecordExists(r))
          => /\ ~SetsPaid(r)
             /\ (Answered(r) /\ Healthy(r)) => r.resp.status = 400

\* an order creation request that passes the validation of createOrder
AcceptableOrder(r) ==
    /\ r.h = "createOrder"
    /\ r.method = "POST"
    /\ r.body.userId # "" /\ r.body.shipping /\ r.body.size
    /\ pm(r.body) = "razorpay" => (Truthy(r.body.amount) /\ r.body.amount[1] > 0)

\* configuration that the invocation needs is not set: the Razorpay
\* credentials, or the Appwrite settings in the handlers that read them from
\* the environment (part_001 lines 116-121, part_002 lines 175-179)
ConfigMissing(r) ==
    \/ IsVerify(r) /\ MissingRazorpayEnv(env)
    \/ r.h = "createOrder" /\ pm(r.body) = "razorpay" /\ MissingRazorpayEnv(env)
    \/ r.h \in {"Shipping", "createOrder"} /\ ~env.APPWRITE

\* a request that nothing but the configuration keeps from being served
WellFormed(r) ==
    \/ AcceptableOrder(r)
    \/ /\ IsVerify(r) /\ r.method = "POST" /\ ~LacksField(r.body)
       /\ (MissingRazorpayEnv(env)
             \/ r.body.razorpay_signature = ExpectedSignature(r.body))

\* C11: with required configuration missing, an otherwise well-formed request
\* is answered 500, and the invocation makes no gateway call and no
\* document-store call.
C11_MisconfiguredNoCalls ==
    \A s \in Slots :
        LET r == reqs[s] IN
        (WellFormed(r) /\ ConfigMissing(r))
          => /\ r.ops = <<>>
             /\ Answered(r) => r.resp.status = 500

\* the first call of the invocation, payments.fetch, failed
FetchFailed(r) ==
    /\ IsVerify(r)
    /\ Len(r.ops) >= 1
    /\ r.ops[1].op = "payments.fetch" /\ ~r.ops[1].ok

\* every later call of the invocation succeeded
RestOk(r) == \A i \in 2..Len(r.ops) : r.ops[i].ok

\* C12: a verification whose payment-detail fetch fails has no payment details
\* and goes on to the lookup of the order (the shipping variant only after its
\* Appwrite settings check); when its other calls succeed it is answered as a
\* verification without amount cross-check is: 200 with the record found set
\* to `paid`, a record created where the variant creates, 404 where the
\* update-only variant finds none.  It never gets a failure response for the
\* fetch failure alone.
C12_FetchFailureNonFatal ==
    \A s \in Slots :
        LET r == reqs[s] IN
        FetchFailed(r)
          => /\ r.pd = <<>>
             /\ Len(r.ops) = 1
                  => \/ r.pc = "listDocuments"
                     \/ r.h = "Shipping" /\ ~env.APPWRITE /\ r.resp.status = 500
             /\ (Answered(r) /\ Len(r.ops) >= 2 /\ RestOk(r))
                  => /\ r.resp.success \/ (r.h = "UpdateOnly" /\ r.doc = 0
                                             /\ r.resp.status = 404)
                     /\ r.doc # 0
                          => /\ r.resp.status = 200
                             /\ docs[r.doc].status = "paid"
                             /\ docs[r.doc].razorpay_payment_id
                                  = r.body.razorpay_payment_id

\* an amount is declared, the fetch fails, and the record found is paid
C12_Witness ==
    \E s \in Slots :
        /\ FetchFailed(reqs[s]) /\ Answered(reqs[s]) /\ RestOk(reqs[s])
        /\ Truthy(reqs[s].body.amount)
        /\ reqs[s].doc # 0
        /\ reqs[s].resp.status = 200
        /\ docs[reqs[s].doc].status = "paid"

\* an order that lacks the buyer id, the shipping address or a size, or, on
\* the gateway path, a positive amount
Defective(b) ==
    \/ b.userId = ""
    \/ ~b.shipping
    \/ ~b.size
    \/ pm(b) = "razorpay" /\ (b.amount = NoNumber \/ b.amount[1] <= 0)

\* C13 as amended: createOrder (part_002) answers a defective order at once,
\* with 400, having made no gateway call and no document-store call.
C13_createOrderRejects ==
    \A s \in Slots :
        LET r == reqs[s] IN
        (r.h = "createOrder" /\ r.method = "POST" /\ Defective(r.body))
          => /\ Answered(r)
             /\ r.ops = <<>>
             /\ r.resp.status = 400

\* a negative amount on the gateway path is refused while the store holds
\* an order
C13_Witness ==
    \E s \in Slots :
        /\ reqs[s].h = "createOrder" /\ reqs[s].method = "POST"
        /\ reqs[s].body.userId # "" /\ reqs[s].body.shipping /\ reqs[s].body.size
        /\ reqs[s].body.amount # NoNumber /\ reqs[s].body.amount[1] < 0
        /\ reqs[s].resp.status = 400
        /\ Len(docs) > 0

\* C13 as stated: every order creation handler, the create-order script
\* included, answers a defective order at once, with 400, having made no
\* gateway call and no document-store call.
C13_OrderCreationRejects ==
    \A s \in Slots :
        LET r == reqs[s] IN
        (\/ r.h = "createOrder" /\ r.method = "POST"
         \/ r.h = "main")
        /\ Defective(r.body)
          => /\ Answered(r)
             /\ r.ops = <<>>
             /\ r.resp.status = 400

\* an order creation on the gateway path
GatewayPaid(r) ==
    \/ r.h = "createOrder" /\ r.method = "POST" /\ pm(r.body) = "razorpay"
    \/ r.h = "main"

\* the invocation has called the gateway's order-create operation
CalledOrdersCreate(r) == \E i \in DOMAIN r.ops : r.ops[i].op = "orders.create"

\* C14: an order creation on the gateway path calls the gateway with
\* round(a * 100) for the client amount a, and when it succeeds the record of
\* its order holds that minor-unit value in its amount field.
C14_RecordAmountMinorUnits ==
    \A s \in Slots :
        LET r == reqs[s]
            doc == listDocuments(docs, r.order)
        IN  (GatewayPaid(r) /\ CalledOrdersCreate(r))
              => /\ r.amountPaise = Some(MathRound(r.body.amount[1] * 100))
                 /\ (Answered(r) /\ r.resp.success /\ doc # 0)
                      => docs[doc].amount = Some(MathRound(r.body.amount[1] * 100))

\* C15: whatever payment method an accepted order names, the record that
\* order creation writes has status `created` exactly when the invocation
\* obtained the order from the gateway, and status `pending` exactly when it
\* synthesized the order id itself, without a gateway call.
C15_StatusFollowsGatewayCall ==
    \A s \in Slots :
        LET r == reqs[s] IN
        r.h \in {"createOrder", "main"}
          => \A i \in DOMAIN r.ops :
                (r.ops[i].op \in {"createDocument", "updateDocument"} /\ r.ops[i].ok)
                  => /\ r.ops[i].status = "created" <=> CalledOrdersCreate(r)
                     /\ r.ops[i].status = "pending" <=> ~CalledOrdersCreate(r)

\* document d is the unpaid record of an order that createOrder saved for
\* payload b
SavedFor(d, b) ==
    /\ d.userId = b.userId
    /\ d.amountPaise = Some(amountPaiseFromClient(b.amount))
    /\ d.status = (IF pm(b) = "cod" THEN "pending" ELSE "created")
    /\ d.razorpay_order_id \in GatewayOrders <=> pm(b) = "razorpay"
    /\ d.razorpay_payment_id = ""

\* C16: createOrder updates the record its lookup finds instead of creating
\* one, and once a createOrder call has succeeded, all its calls succeeding,
\* the store holds one record for its payload however often that payload was
\* sent.
C16_RetryLeavesOneRecord ==
    \A s \in Slots :
        LET r == reqs[s] IN
        (AcceptableOrder(r) /\ AllCallsOk(r))
          => /\ r.doc # 0 => \A i \in DOMAIN r.ops : r.ops[i].op # "createDocument"
             /\ (Answered(r) /\ r.resp.success)
                  => Cardinality({i \in DOMAIN docs : SavedFor(docs[i], r.body)}) <= 1

\* the number of calls among `calls` that the invocation has made
Calls(r, calls) == Cardinality({i \in DOMAIN r.ops : r.ops[i].op \in calls})

\* C17: an order creation that returns success has made exactly one
\* document-store read, exactly one document-store write, and one gateway
\* order-create call on the gateway path (none otherwise), and the record of
\* its order is in the store.
C17_SuccessMeansPersisted ==
    \A s \in Slots :
        LET r == reqs[s] IN
        ((r.h = "main" \/ (r.h = "createOrder" /\ r.method = "POST"))
           /\ Answered(r) /\ r.resp.success)
          => /\ Calls(r, {"listDocuments"}) = 1
             /\ Calls(r, {"createDocument", "updateDocument"}) = 1
             /\ Calls(r, {"orders.create"}) = (IF GatewayPaid(r) THEN 1 ELSE 0)
             /\ listDocuments(docs, r.order) # 0

\* the update-only handler found the fetched amount to differ from the one declared
AmountDiffers(r) ==
    /\ r.h = "UpdateOnly"
    /\ CompleteVerify(r)
    /\ r.body.razorpay_signature = ExpectedSignature(r.body)
    /\ UpdateOnly_amountMismatch(r.body, r.pd)

\* a best-effort call of the invocation failed
SidePathFailed(r) ==
    \E i \in DOMAIN r.ops : r.ops[i].op \in StoreCalls /\ ~r.ops[i].ok

\* C18: in the update-only handler a signature mismatch is answered 400
\* "Invalid signature" and an amount mismatch 400 "Payment amount mismatch",
\* whether the best-effort lookup and update succeed, fail, or find no record;
\* a failed best-effort call ends the side path and the same answer follows.
C18_BestEffortNeverChangesOutcome ==
    \A s \in Slots :
        LET r == reqs[s] IN
        /\ (r.h = "UpdateOnly" /\ Tampered(r))
             => /\ r.pc \in {"mismatch.listDocuments", "mismatch.updateDocument", "done"}
                /\ SidePathFailed(r) => Answered(r)
                /\ Answered(r) => /\ r.resp.status = 400
                                  /\ ~r.resp.success
                                  /\ r.resp.message = "Invalid signature"
        /\ AmountDiffers(r)
             => /\ r.pc \in {"amount.listDocuments", "amount.updateDocument", "done"}
                /\ SidePathFailed(r) => Answered(r)
                /\ Answered(r) => /\ r.resp.status = 400
                                  /\ ~r.resp.success
                                  /\ r.resp.message = "Payment amount mismatch"

\* an amount mismatch whose lookup found the record and whose update failed
C18_Witness ==
    \E s \in Slots :
        LET r == reqs[s] IN
        /\ AmountDiffers(r)
        /\ Answered(r)
        /\ Len(r.ops) = 3
        /\ r.ops[3].op = "updateDocument" /\ ~r.ops[3].ok
        /\ r.resp.status = 400
        /\ r.resp.message = "Payment amount mismatch"

\* the handler whose invocation took the step
Stepped(h) == \E s \in Slots : reqs'[s] # reqs[s] /\ reqs'[s].h \in h

OrderCreation == {"createOrder", "main"}

\* C19: a step writes status `created` or `pending` only when an order
\* creation creates the record; the status of an existing record changes
\* only in a step of a payment verification, never in one of an order
\* creation; and no step removes a record.
C19_StatusLifecycle ==
    [][/\ Len(docs') >= Len(docs)
       /\ \A i \in DOMAIN docs :
             docs'[i].status # docs[i].status
               => /\ Stepped(VerifyHandlers)
                  /\ docs'[i].status \notin {"created", "pending"}
       /\ \A i \in DOMAIN docs' \ DOMAIN docs :
             docs'[i].status \in {"created", "pending"} => Stepped(OrderCreation)]_vars

\* a verification of an order that a successful order creation returned,
\* with the gateway's signature and no declared amount
VerifiesIssued(r) ==
    /\ CompleteVerify(r)
    /\ r.body.razorpay_order_id \in GatewayOrders \cap issued
    /\ r.body.razorpay_signature = ExpectedSignature(r.body)
    /\ r.body.amount = NoNumber

\* the store holds a `paid` record of the order carrying the payment id
PaidWith(store, b) ==
    \E i \in DOMAIN store :
        /\ store[i].razorpay_order_id = b.razorpay_order_id
        /\ store[i].status = "paid"
        /\ store[i].razorpay_payment_id = b.razorpay_payment_id

\* C20: when a verification of an order returned by a successful gateway-paid
\* order creation, correctly signed, is answered and none of its calls
\* failed, its lookup found the order's record, the answer is a success, and
\* the record is `paid` with the submitted payment id.
C20_VerifyAfterCreate ==
    [][\A s \in Slots :
         LET r == reqs'[s] IN
         (VerifiesIssued(r) /\ Healthy(r) /\ Answered(r) /\ ~Answered(reqs[s]))
           => /\ r.doc # 0
              /\ r.resp.success
              /\ PaidWith(docs', r.body)]_vars

\* a verification, correctly signed and declaring no amount, of an order whose
\* record existed and was not paid when the call arrived, with no call failed
VerifiesUnpaid(r) ==
    /\ CompleteVerify(r)
    /\ r.body.razorpay_signature = ExpectedSignature(r.body)
    /\ r.body.amount = NoNumber
    /\ r.known /\ ~r.paid
    /\ Healthy(r)

\* the records of an order
RecordsOf(id) == {i \in DOMAIN docs : docs[i].razorpay_order_id = id}

\* the invocation is past its lookup of the order
LookedUp(r) == \E i \in DOMAIN r.ops : r.ops[i].op = "listDocuments"

\* C21: a correctly signed verification of an order whose record exists and is
\* not yet paid finds the record, creates none and, once answered, has
\* returned success and left the record `paid`, whatever a concurrent
\* verification of the same order has done in between; while two such
\* verifications are under way the order has exactly one record, and as soon
\* as either is answered that record is `paid`.
C21_ConcurrentVerifyBothPaid ==
    /\ \A s \in Slots :
          LET r == reqs[s] IN
          VerifiesUnpaid(r)
            => /\ LookedUp(r) => r.doc # 0
               /\ Calls(r, {"createDocument"}) = 0
               /\ Answered(r)
                    => /\ r.resp.success /\ r.resp.status = 200
                       /\ docs[r.doc].razorpay_order_id = r.body.razorpay_order_id
                       /\ docs[r.doc].status = "paid"
    /\ \A s, t \in Slots :
          (/\ s # t
           /\ VerifiesUnpaid(reqs[s]) /\ VerifiesUnpaid(reqs[t])
           /\ reqs[s].body.razorpay_order_id = reqs[t].body.razorpay_order_id)
            => /\ Cardinality(RecordsOf(reqs[s].body.razorpay_order_id)) = 1
               /\ Answered(reqs[s])
                    => \A i \in RecordsOf(reqs[s].body.razorpay_order_id) :
                          docs[i].status = "paid"

\* both verifications found the unpaid record before either wrote; the first
\* has been answered and the second is about to write
C21_Witness ==
    \E s, t \in Slots :
        /\ s # t
        /\ VerifiesUnpaid(reqs[s]) /\ VerifiesUnpaid(reqs[t])
        /\ reqs[s].body.razorpay_order_id = reqs[t].body.razorpay_order_id
        /\ Answered(reqs[s]) /\ reqs[s].resp.success
        /\ reqs[t].pc = "updateDocument" /\ reqs[t].doc = reqs[s].doc
        /\ docs[reqs[s].doc].status = "paid"

\* the fields of a record that order creation writes
OrderFields(d) == [userId |-> d.userId, amount |-> d.amount]

\* C22: the step in which a verification updates the record it found and
\* answers with success leaves the buyer id and the amount of the record as
\* order creation wrote them.
C22_VerifyKeepsOrderFields ==
    [][\A s \in Slots :
         LET r == reqs'[s] IN
         (IsVerify(r) /\ Answered(r) /\ ~Answered(reqs[s])
            /\ r.resp.success /\ r.doc # 0)
           => OrderFields(docs'[r.doc]) = OrderFields(docs[r.doc])]_vars

\* another value that RAZORPAY_KEY_SECRET could have
OtherSecret == "rzp_secret_2"

\* what the signature-mismatch branch stores when the secret is `secret`
StoredUnder(secret, b) ==
    UpdateOnly_signatureMismatchData(b,
        generatedSignature(secret, b.razorpay_order_id, b.razorpay_payment_id))

\* C23: a request whose signature matches under neither secret is answered
\* 400 "Invalid signature" with no further detail, and what its handler
\* stores in the record is what it would store were the secret another one:
\* the expected signature is in no field written.
C23_MismatchDisclosesNothing ==
    \A s \in Slots :
        LET r == reqs[s] IN
        (Tampered(r) /\ Answered(r)
           /\ r.body.razorpay_signature
                 # generatedSignature(OtherSecret, r.body.razorpay_order_id,
                                      r.body.razorpay_payment_id))
          => /\ r.resp = [status |-> 400, success |-> FALSE,
                          message |-> "Invalid signature", error |-> ""]
             /\ \A i \in DOMAIN r.ops :
                   (r.ops[i].op = "updateDocument" /\ r.ops[i].ok)
                     => docs[r.doc] = StoredUnder(OtherSecret, r.body) @@ docs[r.doc]

====
